---- MODULE Spec2Model ----
(***************************************************************************)
(* A model of the diameter-parser command (src/main.go): the packet loop   *)
(* of main, the dictionary lookup avpNameFromDict, the value conversion    *)
(* avpToJSONValue, the header helpers commandCodeName, applicationName and *)
(* commandFlagsName, the PLMN decoder decodePLMN and the grouped-AVP       *)
(* enrichment avpsToInfoList.                                              *)
(*                                                                         *)
(* Go strings that the program computes (flag names, mcc, mnc, hex) are    *)
(* sequences of one-character strings; Go strings that are fixed names are *)
(* TLA+ strings.  A byte is a number in 0..255.                            *)
(***************************************************************************)
EXTENDS Integers, Sequences, FiniteSets, TLC

VARIABLES
    d,        \* the dictionary (dict.Default), read through FindAVPWithVendor
    packets,  \* the packets the packet source yields, in order
    pos,      \* how many packets the loop of main has consumed
    pc,       \* "loop" while main ranges over the packets, "exit" after
    run,      \* 1 for the first execution over the capture, 2 for a re-run
    msg,      \* the message of the last payload that parsed (main's msg)
    mi,       \* the MessageInfo built for it (main's mi)
    out,      \* the lines printed on stdout by this execution
    out1,     \* the lines the first execution printed (kept for the re-run)
    call,     \* the pending call of a helper function, with its arguments
    ret       \* what that call returned

vars == <<d, packets, pos, pc, run, msg, mi, out, out1, call, ret>>

-----------------------------------------------------------------------------
(* Bounds of the model *)

\* longest byte slice handed to decodePLMN
MaxLen == 3

\* most packets in one capture
MaxPackets == 3

\* most AVPs in one message, children of grouped AVPs included
MaxNodes == 3

\* deepest nesting of grouped AVPs in a message
MaxDepth == 2

-----------------------------------------------------------------------------
(* Formatting: fmt.Sprintf with %d and %x *)

DigitChars == <<"0", "1", "2", "3", "4", "5", "6", "7", "8", "9">>

HexChars ==
    <<"0", "1", "2", "3", "4", "5", "6", "7", "8", "9", "a", "b", "c", "d", "e", "f">>

\* fmt.Sprintf("%d", n) for a small unsigned number
RECURSIVE SprintfD(_)
SprintfD(n) ==
    IF n < 10 THEN <<DigitChars[n + 1]>>
    ELSE SprintfD(n \div 10) \o <<DigitChars[(n % 10) + 1]>>

\* fmt.Sprintf("%x", b) for a byte slice: two lowercase hex digits per byte
RECURSIVE SprintfX(_)
SprintfX(b) ==
    IF b = <<>> THEN <<>>
    ELSE <<HexChars[(b[1] \div 16) + 1], HexChars[(b[1] % 16) + 1]>> \o SprintfX(Tail(b))

-----------------------------------------------------------------------------
(* commandFlagsName *)

\* f & mask # 0 for a one-bit mask
BitSet(f, mask) == (f \div mask) % 2 = 1

\* if s != "" { s += "|" }; s += tok
AddToken(s, tok) == IF s # <<>> THEN s \o <<"|", tok>> ELSE s \o <<tok>>

commandFlagsNameLowT(f) ==
    LET s1 == IF BitSet(f, 128) THEN <<"R">> ELSE <<>>
        s2 == IF BitSet(f, 64) THEN AddToken(s1, "P") ELSE s1
        s3 == IF BitSet(f, 32) THEN AddToken(s2, "E") ELSE s2
        s4 == IF BitSet(f, 1) THEN AddToken(s3, "T") ELSE s3
    IN  s4

commandFlagsName(f) ==
    LET s1 == IF BitSet(f, 128) THEN <<"R">> ELSE <<>>
        s2 == IF BitSet(f, 64) THEN AddToken(s1, "P") ELSE s1
        s3 == IF BitSet(f, 32) THEN AddToken(s2, "E") ELSE s2
        s4 == IF BitSet(f, 16) THEN AddToken(s3, "T") ELSE s3
    IN  s4

-----------------------------------------------------------------------------
(* decodePLMN *)

Nil == [kind |-> "nil"]

decodePLMNSpecOrder(b) ==
    IF Len(b) < 3 THEN Nil
    ELSE
        LET mccDigit1 == b[1] % 16
            mccDigit2 == b[1] \div 16
            mccDigit3 == b[2] % 16
            mncDigit3 == b[2] \div 16
            mncDigit1 == b[3] % 16
            mncDigit2 == b[3] \div 16
            mcc == SprintfD(mccDigit1) \o SprintfD(mccDigit2) \o SprintfD(mccDigit3)
            mnc == IF mncDigit3 = 15
                   THEN SprintfD(mncDigit1) \o SprintfD(mncDigit2)
                   ELSE SprintfD(mncDigit3) \o SprintfD(mncDigit1) \o SprintfD(mncDigit2)
        IN  [kind |-> "PLMN", MCC |-> mcc, MNC |-> mnc, Hex |-> SprintfX(b)]

decodePLMN(b) ==
    IF Len(b) < 3 THEN Nil
    ELSE
        LET mccDigit1 == b[1] % 16
            mccDigit2 == b[1] \div 16
            mccDigit3 == b[2] % 16
            mncDigit3 == b[2] \div 16
            mncDigit1 == b[3] % 16
            mncDigit2 == b[3] \div 16
            mcc == SprintfD(mccDigit1) \o SprintfD(mccDigit2) \o SprintfD(mccDigit3)
            mnc == IF mncDigit3 = 15
                   THEN SprintfD(mncDigit1) \o SprintfD(mncDigit2)
                   ELSE SprintfD(mncDigit1) \o SprintfD(mncDigit2) \o SprintfD(mncDigit3)
        IN  [kind |-> "PLMN", MCC |-> mcc, MNC |-> mnc, Hex |-> SprintfX(b)]

-----------------------------------------------------------------------------
(* The dictionary and avpNameFromDict *)

\* dict.UndefinedVendorID, 0xffffffff: the uint32 of all ones, written as the
\* 32-bit integer with the same bits
UndefinedVendorID == -1

BaseApp == 0
S6aApp == 16777251
Apps == {BaseApp, S6aApp}

VisitedPLMNCode == 1407
SessionIdCode == 263
VendorAppIdCode == 260
Codes == {VisitedPLMNCode, SessionIdCode, VendorAppIdCode}

Vendor3GPP == 10415
Vendors == {0, Vendor3GPP}

DictKeys == Apps \X Codes \X (Vendors \cup {UndefinedVendorID})

\* What d.FindAVPWithVendor returns: (avpDef, err)
NotFound == [err |-> TRUE, def |-> FALSE, Name |-> ""]
NilDef == [err |-> FALSE, def |-> FALSE, Name |-> ""]
Found(name) == [err |-> FALSE, def |-> TRUE, Name |-> name]

FindAVPWithVendor(dict, appid, code, vendorID) == dict[<<appid, code, vendorID>>]

avpNameFromDictNoMarker(dict, appID, code, vendorID) ==
    LET v == vendorID
        r1 == FindAVPWithVendor(dict, appID, code, v)
        r2 == FindAVPWithVendor(dict, BaseApp, code, v)
    IN  IF ~r1.err /\ r1.def THEN r1.Name
        ELSE IF ~r2.err /\ r2.def THEN r2.Name
        ELSE ""

avpNameFromDict(dict, appID, code, vendorID) ==
    LET v == IF vendorID = 0 THEN UndefinedVendorID ELSE vendorID
        r1 == FindAVPWithVendor(dict, appID, code, v)
        r2 == FindAVPWithVendor(dict, BaseApp, code, v)
    IN  IF ~r1.err /\ r1.def THEN r1.Name
        ELSE IF ~r2.err /\ r2.def THEN r2.Name
        ELSE ""

-----------------------------------------------------------------------------
(* The decoded message: diam.Message, diam.AVP and the datatype values *)

Octets(b) == [type |-> "OctetString", bytes |-> b]
UTF8(s) == [type |-> "UTF8String", str |-> s]
Identity(s) == [type |-> "DiameterIdentity", str |-> s]
U32(n) == [type |-> "Unsigned32", n |-> n]
F64(isNaN, x) == [type |-> "Float64", nan |-> isNaN, f |-> x]
Enumerated(n) == [type |-> "Enumerated", n |-> n]

\* A datatype.Grouped value: its raw bytes, and what diam.DecodeGrouped makes
\* of them (an error, or the child AVPs)
GroupedOk(raw, children) ==
    [type |-> "Grouped", raw |-> raw, decodeErr |-> FALSE, AVP |-> children]
GroupedBad(raw) ==
    [type |-> "Grouped", raw |-> raw, decodeErr |-> TRUE, AVP |-> <<>>]

AVP(code, vendor, data) == [Code |-> code, VendorID |-> vendor, Data |-> data]

\* diam.DecodeGrouped(g, appID, d): (ga, err)
DecodeGrouped(g) == [err |-> g.decodeErr, AVP |-> g.AVP]

-----------------------------------------------------------------------------
(* avpToJSONValue *)

avpToJSONValue(v) ==
    CASE v.type = "UTF8String" -> [kind |-> "string", str |-> v.str]
      [] v.type = "DiameterIdentity" -> [kind |-> "string", str |-> v.str]
      [] v.type = "OctetString" -> [kind |-> "bytes", bytes |-> v.bytes]
      [] v.type = "Unsigned32" -> [kind |-> "uint32", n |-> v.n]
      [] v.type = "Float64" -> [kind |-> "float64", nan |-> v.nan, f |-> v.f]
      [] v.type = "Grouped" -> [kind |-> "string", str |-> SprintfX(v.raw)]
      [] OTHER -> [kind |-> "string", str |-> <<v.type, "{", "}">>]

-----------------------------------------------------------------------------
(* commandCodeName and applicationName *)

commandCodeName(code) ==
    CASE code = 316 -> "Update-Location (ULR/ULA)"
      [] code = 317 -> "Cancel-Location (CLR/CLA)"
      [] code = 318 -> "Authentication-Information (AIR/AIA)"
      [] code = 319 -> "Insert-Subscriber-Data (IDR/IDA)"
      [] OTHER -> ""

applicationName(id) ==
    CASE id = 0 -> "Diameter Base"
      [] id = 16777251 -> "S6a/S6d"
      [] OTHER -> ""

-----------------------------------------------------------------------------
(* avpsToInfoList, and the body of main's loop over msg.AVP *)

AVPInfo(code, vendor, name, data) ==
    [Code |-> code, VendorID |-> vendor, Name |-> name, Data |-> data]

\* One pass of the loop of avpsToInfoList: the AVPInfo appended for a.
\* (The default case of avpToJSONValue prints the value with %v: the type's own
\* String(), of which the model keeps the type name.)
childInfoAnyName(dict, appID, a) ==
    LET name == avpNameFromDict(dict, appID, a.Code, a.VendorID)
        generic == avpToJSONValue(a.Data)
        plmn == IF a.Data.type = "OctetString" THEN decodePLMN(a.Data.bytes) ELSE Nil
        data == IF plmn # Nil THEN plmn ELSE generic
    IN  AVPInfo(a.Code, a.VendorID, name, data)

childInfo(dict, appID, a) ==
    LET name == avpNameFromDict(dict, appID, a.Code, a.VendorID)
        generic == avpToJSONValue(a.Data)
        plmn == IF name = "Visited-PLMN-Id" /\ a.Data.type = "OctetString"
                THEN decodePLMN(a.Data.bytes)
                ELSE Nil
        data == IF plmn # Nil THEN plmn ELSE generic
    IN  AVPInfo(a.Code, a.VendorID, name, data)

\* for _, a := range avps { ... out = append(out, AVPInfo{...}) }
RECURSIVE infoLoop(_, _, _, _)
infoLoop(dict, appID, avps, acc) ==
    IF avps = <<>> THEN acc
    ELSE infoLoop(dict, appID, Tail(avps), Append(acc, childInfo(dict, appID, Head(avps))))

avpsToInfoListSkipUnknown(dict, appID, avps) ==
    SelectSeq(infoLoop(dict, appID, avps, <<>>), LAMBDA i : i.Name # "")

avpsToInfoList(dict, appID, avps) == infoLoop(dict, appID, avps, <<>>)

\* One pass of main's loop over msg.AVP: the AVPInfo appended for a
topInfo(dict, appID, a) ==
    LET name == avpNameFromDict(dict, appID, a.Code, a.VendorID)
        generic == avpToJSONValue(a.Data)
        ga == IF a.Data.type = "Grouped" THEN DecodeGrouped(a.Data) ELSE [err |-> TRUE, AVP |-> <<>>]
        plmn == IF name = "Visited-PLMN-Id" /\ a.Data.type = "OctetString"
                THEN decodePLMN(a.Data.bytes)
                ELSE Nil
        data == IF a.Data.type = "Grouped"
                THEN IF ~ga.err
                     THEN [kind |-> "GroupedData", AVPs |-> avpsToInfoList(dict, appID, ga.AVP)]
                     ELSE generic
                ELSE IF plmn # Nil THEN plmn ELSE generic
    IN  AVPInfo(a.Code, a.VendorID, name, data)

\* for _, a := range msg.AVP { ... mi.AVPs = append(mi.AVPs, AVPInfo{...}) }
RECURSIVE mainLoop(_, _, _, _)
mainLoop(dict, appID, avps, acc) ==
    IF avps = <<>> THEN acc
    ELSE mainLoop(dict, appID, Tail(avps), Append(acc, topInfo(dict, appID, Head(avps))))

\* mi := MessageInfo{...}: the header fields, and no AVPs yet
NoMessageInfo ==
    [CommandCode |-> 0, CommandCodeName |-> "", CommandFlags |-> 0,
     CommandFlagsName |-> <<>>, ApplicationID |-> 0, ApplicationName |-> "",
     HopByHopID |-> 0, EndToEndID |-> 0, AVPs |-> <<>>]

InitMessageInfoKeepAVPs(h) ==
    [CommandCode |-> h.CommandCode,
     CommandCodeName |-> commandCodeName(h.CommandCode),
     CommandFlags |-> h.CommandFlags,
     CommandFlagsName |-> commandFlagsName(h.CommandFlags),
     ApplicationID |-> h.ApplicationID,
     ApplicationName |-> applicationName(h.ApplicationID),
     HopByHopID |-> h.HopByHopID,
     EndToEndID |-> h.EndToEndID,
     AVPs |-> mi.AVPs]

InitMessageInfo(h) ==
    [CommandCode |-> h.CommandCode,
     CommandCodeName |-> commandCodeName(h.CommandCode),
     CommandFlags |-> h.CommandFlags,
     CommandFlagsName |-> commandFlagsName(h.CommandFlags),
     ApplicationID |-> h.ApplicationID,
     ApplicationName |-> applicationName(h.ApplicationID),
     HopByHopID |-> h.HopByHopID,
     EndToEndID |-> h.EndToEndID,
     AVPs |-> <<>>]

\* The MessageInfo main builds for a message that parsed
BuildMessageInfo(dict, m) ==
    LET mi0 == InitMessageInfo(m.Header)
    IN  [mi0 EXCEPT !.AVPs = mainLoop(dict, m.Header.ApplicationID, m.AVP, mi0.AVPs)]

-----------------------------------------------------------------------------
(* json.MarshalIndent(mi, "", "  "): the document, as a tree *)

Base64Chars ==
    <<
      "A", "B", "C", "D", "E", "F", "G", "H", "I", "J", "K", "L", "M", "N", "O", "P",
      "Q", "R", "S", "T", "U", "V", "W", "X", "Y", "Z", "a", "b", "c", "d", "e", "f",
      "g", "h", "i", "j", "k", "l", "m", "n", "o", "p", "q", "r", "s", "t", "u", "v",
      "w", "x", "y", "z", "0", "1", "2", "3", "4", "5", "6", "7", "8", "9", "+", "/"
    >>

\* encoding/json writes a []byte as its standard base64 text, padded with "="
RECURSIVE Base64(_)
Base64(b) ==
    IF Len(b) = 0 THEN <<>>
    ELSE IF Len(b) = 1 THEN
        <<Base64Chars[(b[1] \div 4) + 1], Base64Chars[((b[1] % 4) * 16) + 1], "=", "=">>
    ELSE IF Len(b) = 2 THEN
        <<Base64Chars[(b[1] \div 4) + 1],
          Base64Chars[((b[1] % 4) * 16 + (b[2] \div 16)) + 1],
          Base64Chars[((b[2] % 16) * 4) + 1], "=">>
    ELSE
        <<Base64Chars[(b[1] \div 4) + 1],
          Base64Chars[((b[1] % 4) * 16 + (b[2] \div 16)) + 1],
          Base64Chars[((b[2] % 16) * 4 + (b[3] \div 64)) + 1],
          Base64Chars[(b[3] % 64) + 1]>> \o Base64(SubSeq(b, 4, Len(b)))

JNull == [j |-> "null"]
JNum(n) == [j |-> "number", n |-> n]
JText(t) == [j |-> "string", text |-> t]
JChars(s) == [j |-> "string", chars |-> s]
JArr(items) == [j |-> "array", items |-> items]
JObj(fields) == [j |-> "object", fields |-> fields]

\* A field tagged omitempty is left out when its value is the zero value
OmitEmpty(key, value, isZero) == IF isZero THEN <<>> ELSE <<<<key, value>>>>

\* json fails on a float that is NaN or infinite (UnsupportedValueError)
RECURSIVE Unsupported(_)
Unsupported(data) ==
    CASE data.kind = "float64" -> data.nan
      [] data.kind = "GroupedData" ->
            \E i \in 1..Len(data.AVPs) : Unsupported(data.AVPs[i].Data)
      [] OTHER -> FALSE

RECURSIVE JData(_)
JAVPInfo(a) ==
    JObj(<<<<"code", JNum(a.Code)>>>>
         \o OmitEmpty("vendor_id", JNum(a.VendorID), a.VendorID = 0)
         \o OmitEmpty("name", JText(a.Name), a.Name = "")
         \o <<<<"data", JData(a.Data)>>>>)

JData(data) ==
    CASE data.kind = "string" -> JChars(data.str)
      [] data.kind = "bytes" -> JChars(Base64(data.bytes))
      [] data.kind = "uint32" -> JNum(data.n)
      [] data.kind = "float64" -> JNum(data.f)
      [] data.kind = "PLMN" ->
            JObj(<<<<"mcc", JChars(data.MCC)>>, <<"mnc", JChars(data.MNC)>>,
                   <<"hex", JChars(data.Hex)>>>>)
      [] data.kind = "GroupedData" ->
            JObj(<<<<"avps", JArr([i \in 1..Len(data.AVPs) |-> JAVPInfo(data.AVPs[i])])>>>>)

\* (out, err) of json.MarshalIndent(mi, "", "  ")
MarshalIndent(m) ==
    IF \E i \in 1..Len(m.AVPs) : Unsupported(m.AVPs[i].Data)
    THEN [err |-> TRUE, doc |-> JNull]
    ELSE [err |-> FALSE,
          doc |-> JObj(<<<<"command_code", JNum(m.CommandCode)>>>>
                       \o OmitEmpty("command_code_name", JText(m.CommandCodeName),
                                    m.CommandCodeName = "")
                       \o <<<<"command_flags", JNum(m.CommandFlags)>>>>
                       \o OmitEmpty("command_flags_name", JChars(m.CommandFlagsName),
                                    m.CommandFlagsName = <<>>)
                       \o <<<<"application_id", JNum(m.ApplicationID)>>>>
                       \o OmitEmpty("application_name", JText(m.ApplicationName),
                                    m.ApplicationName = "")
                       \o <<<<"hop_by_hop_id", JNum(m.HopByHopID)>>,
                            <<"end_to_end_id", JNum(m.EndToEndID)>>,
                            <<"avps", IF m.AVPs = <<>> THEN JNull
                                      ELSE JArr([i \in 1..Len(m.AVPs) |-> JAVPInfo(m.AVPs[i])])>>>>)]

-----------------------------------------------------------------------------
(* The dictionaries, messages and packets the model draws from *)

DictOf(known) ==
    [k \in DictKeys |-> IF k \in DOMAIN known THEN known[k] ELSE NotFound]

\* Visited-PLMN-Id defined for S6a, the base AVPs for the base application
DictS6a ==
    DictOf((<<S6aApp, VisitedPLMNCode, Vendor3GPP>> :> Found("Visited-PLMN-Id"))
           @@ (<<BaseApp, SessionIdCode, UndefinedVendorID>> :> Found("Session-Id"))
           @@ (<<BaseApp, VendorAppIdCode, UndefinedVendorID>>
                 :> Found("Vendor-Specific-Application-Id")))

\* Visited-PLMN-Id defined for the base application only
DictBaseOnly ==
    DictOf((<<BaseApp, VisitedPLMNCode, Vendor3GPP>> :> Found("Visited-PLMN-Id"))
           @@ (<<BaseApp, SessionIdCode, UndefinedVendorID>> :> Found("Session-Id")))

\* a dictionary that knows none of the AVPs
DictEmpty == DictOf(<<BaseApp, SessionIdCode, Vendor3GPP>> :> NotFound)

Dicts == {DictS6a, DictBaseOnly, DictEmpty}

\* every dictionary over the Visited-PLMN-Id keys
LookupResults == {NotFound, NilDef, Found("Visited-PLMN-Id"), Found("Session-Id")}
PLMNKeys == {k \in DictKeys : k[2] = VisitedPLMNCode}
AllDicts ==
    {[k \in DictKeys |-> IF k \in PLMNKeys THEN f[k] ELSE NotFound] :
        f \in [PLMNKeys -> LookupResults]}

LeafAVPs ==
    {AVP(VisitedPLMNCode, Vendor3GPP, Octets(<<33, 67, 101>>)),
     AVP(VisitedPLMNCode, Vendor3GPP, Octets(<<33, 67>>)),
     AVP(VisitedPLMNCode, Vendor3GPP, UTF8(<<"a">>)),
     AVP(SessionIdCode, 0, Octets(<<33, 67, 245>>)),
     AVP(SessionIdCode, 0, UTF8(<<"a">>))}

\* the bytes of a grouped value, one byte for each child (its code's low byte)
RawOf(children) == [i \in 1..Len(children) |-> children[i].Code % 256]

\* The AVPs of exactly k nodes nested at most dep deep, and the lists of them
RECURSIVE Trees(_, _), Forests(_, _)
Trees(k, dep) ==
    (IF k = 1
     THEN LeafAVPs \cup
          (IF dep > 0 THEN {AVP(VendorAppIdCode, 0, GroupedBad(<<255>>))} ELSE {})
     ELSE {})
    \cup
    (IF dep > 0
     THEN {AVP(VendorAppIdCode, 0, GroupedOk(RawOf(c), c)) : c \in Forests(k - 1, dep - 1)}
     ELSE {})

Forests(k, dep) ==
    IF k = 0 THEN {<<>>}
    ELSE UNION {{<<t>> \o f : t \in Trees(j, dep), f \in Forests(k - j, dep)} : j \in 1..k}

Header(code, flags, app, hbh, e2e) ==
    [CommandCode |-> code, CommandFlags |-> flags, ApplicationID |-> app,
     HopByHopID |-> hbh, EndToEndID |-> e2e]

NoMessage == [Header |-> Header(0, 0, 0, 0, 0), AVP |-> <<>>]

\* A packet: whether it has an application layer, the length of its payload,
\* and what diam.ReadMessage makes of the payload
Packet(layer, len, readErr, m) ==
    [appLayer |-> layer, payloadLen |-> len, readErr |-> readErr, msg |-> m]

MessagePacket(h, avps) == Packet(TRUE, 20, FALSE, [Header |-> h, AVP |-> avps])

NoAppLayerPacket == Packet(FALSE, 0, TRUE, NoMessage)
EmptyPacket == Packet(TRUE, 0, TRUE, NoMessage)
UnreadablePacket == Packet(TRUE, 7, TRUE, NoMessage)

ULRPacket ==
    MessagePacket(Header(316, 192, S6aApp, 1, 1),
                  <<AVP(SessionIdCode, 0, UTF8(<<"a">>)),
                    AVP(VisitedPLMNCode, Vendor3GPP, Octets(<<33, 67, 101>>))>>)

CEAPacket ==
    MessagePacket(Header(257, 0, BaseApp, 2, 2),
                  <<AVP(VendorAppIdCode, 0,
                        GroupedOk(<<7>>, <<AVP(SessionIdCode, 0, U32(7))>>))>>)

NaNPacket ==
    MessagePacket(Header(316, 64, S6aApp, 3, 3),
                  <<AVP(SessionIdCode, 0, F64(TRUE, 0))>>)

SimplePackets ==
    {NoAppLayerPacket, EmptyPacket, UnreadablePacket, ULRPacket, CEAPacket, NaNPacket}

RECURSIVE SeqsUpTo(_, _)
SeqsUpTo(S, n) ==
    IF n = 0 THEN {<<>>}
    ELSE SeqsUpTo(S, n - 1)
         \cup {Append(q, x) : q \in {r \in SeqsUpTo(S, n - 1) : Len(r) = n - 1}, x \in S}

\* Captures of up to MaxPackets simple packets, and one-packet captures of any
\* message of up to MaxNodes AVPs nested up to MaxDepth deep
Captures ==
    SeqsUpTo(SimplePackets, MaxPackets)
    \cup {<<MessagePacket(Header(316, 192, S6aApp, 1, 1), f)>> :
            f \in UNION {Forests(k, MaxDepth) : k \in 0..MaxNodes}}

-----------------------------------------------------------------------------
(* The program: main's loop over the packets *)

NoCall == [fn |-> "none"]
NoRet == [done |-> FALSE]

Init ==
    /\ d \in Dicts
    /\ packets \in Captures
    /\ pos = 0
    /\ pc = "loop"
    /\ run = 1
    /\ msg = NoMessage
    /\ mi = NoMessageInfo
    /\ out = <<>>
    /\ out1 = <<>>
    /\ call = NoCall
    /\ ret = NoRet

\* diam.ReadMessage(bytes.NewReader(payload), d): (msg, err)
ReadMessage(p) == [err |-> p.readErr, msg |-> p.msg]

\* what main does when diam.ReadMessage fails
OnReadErrorReturn == "return"

OnReadError == "continue"

\* appLayer == nil: continue
SkipNoAppLayer ==
    /\ pc = "loop" /\ pos < Len(packets)
    /\ ~packets[pos + 1].appLayer
    /\ pos' = pos + 1
    /\ UNCHANGED <<d, packets, pc, run, msg, mi, out, out1, call, ret>>

\* len(payload) == 0: continue
SkipEmptyPayload ==
    /\ pc = "loop" /\ pos < Len(packets)
    /\ packets[pos + 1].appLayer
    /\ packets[pos + 1].payloadLen = 0
    /\ pos' = pos + 1
    /\ UNCHANGED <<d, packets, pc, run, msg, mi, out, out1, call, ret>>

\* diam.ReadMessage fails: continue
SkipUnreadable ==
    /\ pc = "loop" /\ pos < Len(packets)
    /\ packets[pos + 1].appLayer
    /\ packets[pos + 1].payloadLen # 0
    /\ ReadMessage(packets[pos + 1]).err
    /\ pos' = pos + 1
    /\ pc' = IF OnReadError = "continue" THEN pc ELSE "exit"
    /\ UNCHANGED <<d, packets, run, msg, mi, out, out1, call, ret>>

\* the message parses and json.MarshalIndent fails: log, continue
MarshalFails ==
    /\ pc = "loop" /\ pos < Len(packets)
    /\ packets[pos + 1].appLayer
    /\ packets[pos + 1].payloadLen # 0
    /\ ~ReadMessage(packets[pos + 1]).err
    /\ LET m == ReadMessage(packets[pos + 1]).msg
           info == BuildMessageInfo(d, m)
       IN  /\ MarshalIndent(info).err
           /\ msg' = m
           /\ mi' = info
    /\ pos' = pos + 1
    /\ UNCHANGED <<d, packets, pc, run, out, out1, call, ret>>

\* the message parses and is printed: fmt.Println(string(out))
PrintMessage ==
    /\ pc = "loop" /\ pos < Len(packets)
    /\ packets[pos + 1].appLayer
    /\ packets[pos + 1].payloadLen # 0
    /\ ~ReadMessage(packets[pos + 1]).err
    /\ LET m == ReadMessage(packets[pos + 1]).msg
           info == BuildMessageInfo(d, m)
       IN  /\ ~MarshalIndent(info).err
           /\ msg' = m
           /\ mi' = info
           /\ out' = Append(out, [packet |-> pos + 1, line |-> MarshalIndent(info).doc])
    /\ pos' = pos + 1
    /\ UNCHANGED <<d, packets, pc, run, out1, call, ret>>

\* the packet source is exhausted: the loop ends and main returns
Exit ==
    /\ pc = "loop" /\ pos = Len(packets)
    /\ pc' = "exit"
    /\ UNCHANGED <<d, packets, pos, run, msg, mi, out, out1, call, ret>>

\* the command is run again on the same capture, with the same dictionary
Rerun ==
    /\ pc = "exit" /\ run = 1
    /\ run' = 2
    /\ pc' = "loop"
    /\ pos' = 0
    /\ msg' = NoMessage
    /\ mi' = NoMessageInfo
    /\ out1' = out
    /\ out' = <<>>
    /\ UNCHANGED <<d, packets, call, ret>>

Next ==
    \/ SkipNoAppLayer
    \/ SkipEmptyPayload
    \/ SkipUnreadable
    \/ MarshalFails
    \/ PrintMessage
    \/ Exit
    \/ Rerun

Spec == Init /\ [][Next]_vars

-----------------------------------------------------------------------------
(* The helper functions, each called once on an argument drawn from a set *)

InitHelper(calls, dicts) ==
    /\ d \in dicts
    /\ call \in calls
    /\ ret = NoRet
    /\ packets = <<>>
    /\ pos = 0
    /\ pc = "loop"
    /\ run = 1
    /\ msg = NoMessage
    /\ mi = NoMessageInfo
    /\ out = <<>>
    /\ out1 = <<>>

Pipeline == <<d, packets, pos, pc, run, msg, mi, out, out1>>

\* commandFlagsName on every uint8
InitFlags ==
    InitHelper({[fn |-> "commandFlagsName", f |-> x] : x \in 0..255}, {DictS6a})

CallCommandFlagsName ==
    /\ call.fn = "commandFlagsName" /\ ~ret.done
    /\ ret' = [done |-> TRUE, flagsName |-> commandFlagsName(call.f)]
    /\ UNCHANGED <<Pipeline, call>>

SpecFlags == InitFlags /\ [][CallCommandFlagsName]_vars

\* decodePLMN on byte slices of up to MaxLen bytes: every nibble value occurs
\* in both halves of a byte, and the bytes 0x21 0x43 0x65 0xF5 are among them
ByteVals == {17 * n : n \in 0..15} \cup {33, 67, 101, 245}

InitPLMN ==
    InitHelper({[fn |-> "decodePLMN", b |-> x] : x \in SeqsUpTo(ByteVals, MaxLen)},
               {DictS6a})

CallDecodePLMN ==
    /\ call.fn = "decodePLMN" /\ ~ret.done
    /\ ret' = [done |-> TRUE, plmn |-> decodePLMN(call.b)]
    /\ UNCHANGED <<Pipeline, call>>

SpecPLMN == InitPLMN /\ [][CallDecodePLMN]_vars

\* avpNameFromDict on every dictionary over the Visited-PLMN-Id keys
InitDict ==
    InitHelper({[fn |-> "avpNameFromDict", appID |-> a, code |-> c, vendorID |-> v] :
                    a \in Apps, c \in {VisitedPLMNCode, SessionIdCode}, v \in Vendors},
               AllDicts)

CallAvpNameFromDict ==
    /\ call.fn = "avpNameFromDict" /\ ~ret.done
    /\ ret' = [done |-> TRUE,
               name |-> avpNameFromDict(d, call.appID, call.code, call.vendorID)]
    /\ UNCHANGED <<Pipeline, call>>

SpecDict == InitDict /\ [][CallAvpNameFromDict]_vars

-----------------------------------------------------------------------------
(* Properties *)

\* the tokens of commandFlagsName and their bits, in the order of the code
C1_FlagTokens == <<[t |-> "R", m |-> 128], [t |-> "P", m |-> 64],
                   [t |-> "E", m |-> 32], [t |-> "T", m |-> 16]>>

\* C1: commandFlagsName(f) holds the tokens R, P, E, T of exactly the bits
\* 0x80, 0x40, 0x20, 0x10 set in f, in that order, joined by "|" with none
\* leading or trailing; it is empty iff none of the four bits is set; the low
\* four bits of f play no part.
C1_FlagsName ==
    ret.done =>
        LET s == ret.flagsName
            present == SelectSeq(C1_FlagTokens, LAMBDA x : (call.f \div x.m) % 2 = 1)
        IN  /\ Len(s) = IF present = <<>> THEN 0 ELSE 2 * Len(present) - 1
            /\ \A i \in 1..Len(s) :
                  s[i] = IF i % 2 = 1 THEN present[(i + 1) \div 2].t ELSE "|"
            /\ (s = <<>>) <=> (call.f \div 16 = 0)

C1_Witness ==
    /\ ret.done
    /\ call.f = 175
    /\ ret.flagsName = <<"R", "|", "E">>

\* a lookup hits when it returns a definition and no error
C2_Hit(r) == ~r.err /\ r.def

C2_Names == {"", "Visited-PLMN-Id", "Session-Id"}

\* what a finished call of avpNameFromDict returned
C2_Returned ==
    ret.done =>
        LET marker == IF call.vendorID = 0 THEN UndefinedVendorID ELSE call.vendorID
            scoped == d[<<call.appID, call.code, marker>>]
            base == d[<<0, call.code, marker>>]
        IN  /\ ret.name \in C2_Names
            /\ C2_Hit(scoped) => ret.name = scoped.Name
            /\ ~C2_Hit(scoped) /\ C2_Hit(base) => ret.name = base.Name
            /\ ~C2_Hit(scoped) /\ ~C2_Hit(base) => ret.name = ""

\* C2: avpNameFromDict replaces vendor 0 by the undefined-vendor marker, then
\* returns the name found for (appID, code, marker), else the name found for
\* (0, code, marker), else the empty name; what it returns is always a name,
\* never an error, and the dictionary stays as it was.
C2_Lookup == [](C2_Returned) /\ [][d' = d]_vars

C2_Witness ==
    /\ ret.done
    /\ call.vendorID = 0
    /\ call.appID = S6aApp
    /\ d[<<S6aApp, call.code, UndefinedVendorID>>].err
    /\ C2_Hit(d[<<0, call.code, UndefinedVendorID>>])
    /\ d[<<0, call.code, 0>>] = NotFound
    /\ ret.name = "Visited-PLMN-Id"

\* C3 as stated: when the high nibble of byte 1 is not 0xF, mnc is made of
\* byte-1-high, byte-2-low, byte-2-high, in that order.
C3_SpecOrder ==
    (ret.done /\ Len(call.b) >= 3 /\ call.b[2] \div 16 # 15) =>
        ret.plmn.MNC = SprintfD(call.b[2] \div 16) \o SprintfD(call.b[3] % 16)
                       \o SprintfD(call.b[3] \div 16)

\* C3 as the code has it: when the high nibble of byte 1 is not 0xF, mnc is
\* made of byte-2-low, byte-2-high, byte-1-high, in that order.
C3_CodeOrder ==
    (ret.done /\ Len(call.b) >= 3 /\ call.b[2] \div 16 # 15) =>
        ret.plmn.MNC = SprintfD(call.b[3] % 16) \o SprintfD(call.b[3] \div 16)
                       \o SprintfD(call.b[2] \div 16)

C3_Witness ==
    /\ ret.done
    /\ call.b = <<17, 34, 51>>
    /\ ret.plmn.MNC = <<"3", "3", "2">>

\* C4 as stated: 0x21 0x43 0xF5 decodes to mcc "124", mnc "35", and
\* 0x21 0x43 0x65 to mcc "124", mnc "356".
C4_SpecExamples ==
    /\ (ret.done /\ call.b = <<33, 67, 245>>) =>
          ret.plmn.MCC = <<"1", "2", "4">> /\ ret.plmn.MNC = <<"3", "5">>
    /\ (ret.done /\ call.b = <<33, 67, 101>>) =>
          ret.plmn.MCC = <<"1", "2", "4">> /\ ret.plmn.MNC = <<"3", "5", "6">>

\* C4 as the code has it: 0x21 0x43 0xF5 decodes to mcc "123", mnc "5154"
\* (the three-nibble form, as the high nibble of byte 1 is 4; the nibble 0xF
\* of byte 2 prints as 15), and 0x21 0x43 0x65 to mcc "123", mnc "564".
C4_CodeExamples ==
    /\ (ret.done /\ call.b = <<33, 67, 245>>) =>
          ret.plmn.MCC = <<"1", "2", "3">> /\ ret.plmn.MNC = <<"5", "1", "5", "4">>
    /\ (ret.done /\ call.b = <<33, 67, 101>>) =>
          ret.plmn.MCC = <<"1", "2", "3">> /\ ret.plmn.MNC = <<"5", "6", "4">>

C4_Witness ==
    /\ ret.done
    /\ call.b = <<33, 67, 245>>
    /\ ret.plmn.kind = "PLMN"

\* every character of s is one of 0..9
C10_Decimal(s) == \A i \in 1..Len(s) : \E k \in 1..10 : s[i] = DigitChars[k]

\* C10: for every input of at least 3 bytes, mcc is exactly 3 decimal digits,
\* and mnc is exactly 2 decimal digits when the high nibble of byte 1 is 0xF
\* and exactly 3 otherwise.
C10_DigitCounts ==
    (ret.done /\ Len(call.b) >= 3) =>
        /\ Len(ret.plmn.MCC) = 3
        /\ C10_Decimal(ret.plmn.MCC)
        /\ Len(ret.plmn.MNC) = IF call.b[2] \div 16 = 15 THEN 2 ELSE 3
        /\ C10_Decimal(ret.plmn.MNC)


\* infos has one entry for each of avps, with its code and vendor id
C5_SameAttrs(infos, avps) ==
    /\ Len(infos) = Len(avps)
    /\ \A i \in 1..Len(avps) :
          infos[i].Code = avps[i].Code /\ infos[i].VendorID = avps[i].VendorID

C5_Decoded(a) == a.Data.type = "Grouped" /\ ~a.Data.decodeErr

\* C5: the enriched list of a message has one entry for each attribute of the
\* message, entry i with the code and vendor id of attribute i; and the
\* nested list of a grouped attribute whose decode succeeds has one entry for
\* each child, entry j with the code and vendor id of child j.
C5_NothingLost ==
    /\ C5_SameAttrs(mi.AVPs, msg.AVP)
    /\ \A i \in 1..Len(msg.AVP) :
          C5_Decoded(msg.AVP[i]) =>
              /\ mi.AVPs[i].Data.kind = "GroupedData"
              /\ C5_SameAttrs(mi.AVPs[i].Data.AVPs, msg.AVP[i].Data.AVP)

C5_Witness ==
    /\ Len(msg.AVP) = 1
    /\ C5_Decoded(msg.AVP[1])
    /\ Len(msg.AVP[1].Data.AVP) = 2
    /\ msg.AVP[1].Data.AVP[1].Code # msg.AVP[1].Data.AVP[2].Code
    /\ Len(mi.AVPs[1].Data.AVPs) = 2
    /\ mi.AVPs[1].Data.AVPs[1].Name = ""
    /\ mi.AVPs[1].Data.AVPs[2].Code = msg.AVP[1].Data.AVP[2].Code

\* a grouped attribute whose decode succeeds has a nested list as its value
C6_Expanded(info, a) ==
    C5_Decoded(a) => info.Data.kind = "GroupedData"

\* C6: every grouped attribute whose decode succeeds, at the top of a message
\* or as the child of a grouped attribute, has the nested enriched list as
\* its value; the hexadecimal string is the value of a grouped attribute only
\* when its decode fails.
C6_RecursiveExpansion ==
    \A i \in 1..Len(msg.AVP) :
        /\ C6_Expanded(mi.AVPs[i], msg.AVP[i])
        /\ C5_Decoded(msg.AVP[i]) =>
              \A j \in 1..Len(msg.AVP[i].Data.AVP) :
                  C6_Expanded(mi.AVPs[i].Data.AVPs[j], msg.AVP[i].Data.AVP[j])

\* the packet has a payload that diam.ReadMessage accepts
C7_Parses(p) == p.appLayer /\ p.payloadLen # 0 /\ ~p.readErr

C7_Ordered ==
    \A k \in 1..(Len(out) - 1) : out[k].packet < out[k + 1].packet

\* C7 as stated: of the packets consumed so far, exactly those that parse
\* have a record on the output, one each and in packet order, and the loop
\* exits only when every packet was consumed.
C7_EveryParsedEmitted ==
    /\ C7_Ordered
    /\ {out[k].packet : k \in 1..Len(out)} = {i \in 1..pos : C7_Parses(packets[i])}
    /\ pc = "exit" => pos = Len(packets)

\* json.MarshalIndent accepts the record built for the packet
C7_Serializes(p) == ~MarshalIndent(BuildMessageInfo(d, p.msg)).err

\* C7 as the code has it: of the packets consumed so far, exactly those that
\* parse and whose record json can serialize have a record on the output,
\* one each and in packet order, and the loop exits only when every packet
\* was consumed.
C7_EverySerializedEmitted ==
    /\ C7_Ordered
    /\ {out[k].packet : k \in 1..Len(out)}
          = {i \in 1..pos : C7_Parses(packets[i]) /\ C7_Serializes(packets[i])}
    /\ pc = "exit" => pos = Len(packets)

C7_Witness ==
    /\ pc = "exit"
    /\ Len(packets) = 3
    /\ packets[1] = UnreadablePacket
    /\ packets[2] = ULRPacket
    /\ packets[3] = CEAPacket
    /\ Len(out) = 2
    /\ out[1].packet = 2
    /\ out[2].packet = 3

\* C8: a second run over the same capture with the same dictionary prints
\* what the first run printed, and the record printed for a packet is the
\* same wherever the packet stands in the capture.
C8_Deterministic ==
    /\ run = 2 =>
          /\ Len(out) <= Len(out1)
          /\ \A k \in 1..Len(out) : out[k] = out1[k]
          /\ pc = "exit" => out = out1
    /\ \A k, l \in 1..Len(out) :
          packets[out[k].packet] = packets[out[l].packet] => out[k].line = out[l].line

C8_Witness ==
    /\ run = 2
    /\ pc = "exit"
    /\ Len(out) = 2
    /\ out[1].packet = 1
    /\ out[2].packet = 3
    /\ packets[1] = ULRPacket
    /\ packets[3] = ULRPacket
    /\ out1 = out

\* the case in which the PLMN decoder applies
C9_Trigger(info, a) ==
    /\ info.Name = "Visited-PLMN-Id"
    /\ a.Data.type = "OctetString"
    /\ Len(a.Data.bytes) >= 3

C9_PLMNIffTrigger(info, a) == (info.Data.kind = "PLMN") <=> C9_Trigger(info, a)

C9_GenericKept(info, a) ==
    ~C9_Trigger(info, a) => info.Data = avpToJSONValue(a.Data)

\* C9 as stated: an enriched attribute, at the top of a message or inside a
\* grouped attribute, has the PLMN record as its value iff its name is
\* "Visited-PLMN-Id", its raw value is an OctetString and that has at least 3
\* bytes; in every other case its value is the generic conversion.
C9_GenericOtherwise ==
    \A i \in 1..Len(msg.AVP) :
        /\ C9_PLMNIffTrigger(mi.AVPs[i], msg.AVP[i])
        /\ C9_GenericKept(mi.AVPs[i], msg.AVP[i])
        /\ C5_Decoded(msg.AVP[i]) =>
              \A j \in 1..Len(msg.AVP[i].Data.AVP) :
                  /\ C9_PLMNIffTrigger(mi.AVPs[i].Data.AVPs[j], msg.AVP[i].Data.AVP[j])
                  /\ C9_GenericKept(mi.AVPs[i].Data.AVPs[j], msg.AVP[i].Data.AVP[j])

\* C9 as the code has it: the same, except that a grouped attribute at the
\* top of a message whose decode succeeds has the nested list as its value,
\* not the generic conversion.
C9_GenericUnlessExpanded ==
    \A i \in 1..Len(msg.AVP) :
        /\ C9_PLMNIffTrigger(mi.AVPs[i], msg.AVP[i])
        /\ IF C5_Decoded(msg.AVP[i])
           THEN /\ mi.AVPs[i].Data.kind = "GroupedData"
                /\ \A j \in 1..Len(msg.AVP[i].Data.AVP) :
                      /\ C9_PLMNIffTrigger(mi.AVPs[i].Data.AVPs[j], msg.AVP[i].Data.AVP[j])
                      /\ C9_GenericKept(mi.AVPs[i].Data.AVPs[j], msg.AVP[i].Data.AVP[j])
           ELSE C9_GenericKept(mi.AVPs[i], msg.AVP[i])

C9_Witness ==
    /\ Len(msg.AVP) = 2
    /\ C5_Decoded(msg.AVP[1])
    /\ Len(msg.AVP[1].Data.AVP) = 1
    /\ mi.AVPs[1].Data.AVPs[1].Data.kind = "PLMN"
    /\ mi.AVPs[2].Name = "Visited-PLMN-Id"
    /\ msg.AVP[2].Data.type = "OctetString"
    /\ mi.AVPs[2].Data.kind = "bytes"

====
